---- MODULE Spec2Model ----
(***************************************************************************)
(* Model of check_tesla_inventory.py: the inventory check that loads the   *)
(* seen-set file, queries the API (falling back to Playwright scraping),   *)
(* computes the new listings, sends one e-mail and saves the seen-set.     *)
(* One run of main() is a sequence of steps, one per call main() makes;    *)
(* runs follow each other and share only the file last_seen.json.          *)
(***************************************************************************)
EXTENDS Integers, Sequences, FiniteSets, TLC

\* ------------------------------------------------------------------------
\* Bounds
\* ------------------------------------------------------------------------
\* longest snapshot (API results or scraped items) a run can fetch
MaxLen == 2
\* longest snapshot the loop over listings is tried on by itself
MaxDeltaLen == 3
\* number of consecutive runs of main()
MaxRuns == 2
\* number of distinct per-process string-hash seeds
MaxSeed == 2

\* ------------------------------------------------------------------------
\* Python values: None, str, int; "missing" marks a key a dict does not have
\* ------------------------------------------------------------------------
None == [kind |-> "none", s |-> "", n |-> 0]
Missing == [kind |-> "missing", s |-> "", n |-> 0]
PyStr(t) == [kind |-> "str", s |-> t, n |-> 0]
PyInt(i) == [kind |-> "int", s |-> "", n |-> i]

Digit(d) ==
    CASE d = 0 -> "0" [] d = 1 -> "1" [] d = 2 -> "2" [] d = 3 -> "3"
      [] d = 4 -> "4" [] d = 5 -> "5" [] d = 6 -> "6" [] d = 7 -> "7"
      [] d = 8 -> "8" [] d = 9 -> "9"

RECURSIVE NatToStr(_)
NatToStr(i) == IF i < 10 THEN Digit(i) ELSE NatToStr(i \div 10) \o Digit(i % 10)

\* str(x) for the values a listing id can be
Str(v) ==
    CASE v.kind = "str" -> v.s
      [] v.kind = "int" -> IF v.n < 0 THEN "-" \o NatToStr(0 - v.n) ELSE NatToStr(v.n)
      [] OTHER -> "None"

\* truth value of a Python value, as `or` tests it
Truthy(v) ==
    CASE v.kind = "str" -> v.s # ""
      [] v.kind = "int" -> v.n # 0
      [] OTHER -> FALSE

\* a or b
Or(a, b) == IF Truthy(a) THEN a ELSE b

\* d.get(k) and d.get(k, default)
Get(d, k) == IF d[k].kind = "missing" THEN None ELSE d[k]
GetD(d, k, default) == IF d[k].kind = "missing" THEN default ELSE d[k]

Range(q) == {q[i] : i \in 1..Len(q)}
BoundedSeq(S, k) == UNION {[1..m -> S] : m \in 0..k}
\* every ordering of a finite set, as a sequence without repetition
Orderings(S) == {q \in [1..Cardinality(S) -> S] : Range(q) = S}

\* ------------------------------------------------------------------------
\* What the inventory API can answer: the vehicles of data["results"]
\* ------------------------------------------------------------------------
Veh(id, vin, trim, price, city, state) ==
    [id |-> id, vin |-> vin, trim |-> trim, price |-> price,
     city |-> city, state |-> state]

Vehicles ==
    { Veh(PyStr("V1"), PyStr("5YJ1"), PyStr("LR"), PyInt(44990), PyStr("San Jose"), PyStr("CA")),
      Veh(Missing, PyStr("5YJ2"), PyStr("Perf"), PyInt(51490), PyStr("Fremont"), PyStr("CA")),
      Veh(Missing, Missing, PyStr("LR"), Missing, Missing, Missing),
      Veh(None, None, PyStr("Perf"), None, None, None) }

\* number of characters of an item's text kept in its record: text[:300]
TextLimit == 300

\* c repeated k times
RECURSIVE Repeat(_, _)
Repeat(c, k) ==
    IF k = 0 THEN ""
    ELSE IF k % 2 = 0 THEN LET h == Repeat(c, k \div 2) IN h \o h
    ELSE c \o Repeat(c, k - 1)

\* an item whose text is longer than the part that is kept
LongText == "Model Y LR " \o Repeat("x", TextLimit)

\* texts of the items the inventory page can show
Texts == {"Model Y LR $44,990", "Model 3 RWD $38,990", LongText}

\* "Model Y" in text
HasModelY(t) == \E i \in 1..(Len(t) - 6) : SubSeq(t, i, i + 6) = "Model Y"

ModelYTexts == {t \in Texts : HasModelY(t)}

\* text[:k]
Slice(t, k) == IF Len(t) > k THEN SubSeq(t, 1, k) ELSE t

TextIdx(t) ==
    CASE t = "Model Y LR $44,990" -> 1
      [] t = "Model Y Perf $51,490" -> 2
      [] t = "Model 3 RWD $38,990" -> 4
      [] OTHER -> 3

\* hash(text): str hashes are salted per process, so the value depends on
\* the seed the interpreter drew at start-up; fixed within one process
Hash(t, seed) == ((TextIdx(t) * 37 + seed * 101) % 256) - 128

Seeds == 0..(MaxSeed - 1)

\* ------------------------------------------------------------------------
\* The state file last_seen.json
\* ------------------------------------------------------------------------
Absent == [kind |-> "absent", items |-> <<>>]
ListFile(q) == [kind |-> "list", items |-> q]       \* a JSON array of strings
PartialFile(q) == [kind |-> "partial", items |-> q] \* truncated or malformed text

\* the set of ids a well-formed state file holds
Persisted(f) == IF f.kind = "list" THEN Range(f.items) ELSE {}

InitFiles ==
    {Absent, PartialFile(<<>>)}
      \cup {ListFile(q) : q \in UNION {Orderings(S) : S \in SUBSET {"V1", "5YJ2"}}}

VARIABLES
    file,          \* content of last_seen.json
    runs,          \* number of runs of main() started so far
    pc,            \* position of the current run in main()
    crashAt,       \* the call whose exception ended the run, "" if none
    hashseed,      \* string-hash seed of the current process
    last_seen,     \* the set object main() holds in last_seen
    loaded,        \* the value load_last_seen returned in this run
    listings,      \* main()'s listings: unset, None or a list of dicts
    new_listings,  \* main()'s new_listings
    emails,        \* the send_email calls of this run: body and outcome
    saves,         \* the arguments of the save_last_seen calls of this run
    apiOutcome,    \* how the API strategy ended in this run
    pwOutcome,     \* how the scraping strategy ended in this run
    file0,         \* the state file as it was when this run started
    alerted,       \* ids that were new in an earlier run that saved its set
    calls,         \* the calls main() has made in this run, in order
    observed,      \* every (listing, id string) a provider has produced so far
    notified       \* ids of the deltas send_email was called for, over all runs

vars == <<file, runs, pc, crashAt, hashseed, last_seen, loaded, listings,
          new_listings, emails, saves, apiOutcome, pwOutcome, file0, alerted,
          calls, observed, notified>>

Unset == [kind |-> "unset", recs |-> <<>>]
ListingsNone == [kind |-> "none", recs |-> <<>>]
ListingsOf(q) == [kind |-> "list", recs |-> q]


\* ------------------------------------------------------------------------
\* Helpers of the script
\* ------------------------------------------------------------------------
Returned(v) == [raised |-> FALSE, value |-> v]
Raised(v) == [raised |-> TRUE, value |-> v]

\* variant: an existing file is ignored and the run starts from an empty set
load_last_seen_fresh(f) == Returned({})

\* load_last_seen(): json.load is handed the Path itself, which has no
\* read(), so the call raises AttributeError whenever the file exists
load_last_seen(f) ==
    IF f.kind # "absent" THEN Raised({}) ELSE Returned({})

\* how a write of the state file can go: done, open() refused, or the
\* write broke off after open() had truncated the file
SaveFaults(order) ==
    {[kind |-> "ok", k |-> 0], [kind |-> "open", k |-> 0]}
      \cup {[kind |-> "write", k |-> j] : j \in 0..(IF Len(order) = 0 THEN 0 ELSE Len(order) - 1)}

\* variant: the dump is skipped, a save that reports success leaves the file as it was
save_last_seen_nowrite(f, order, io) ==
    CASE io.kind = "ok" -> Returned(f)
      [] io.kind = "open" -> Raised(f)
      [] OTHER -> Raised(PartialFile(SubSeq(order, 1, io.k)))

\* save_last_seen(ids): open(..., "w") then json.dump(list(ids), f).
\* order is the order list(ids) took; the result is the file left behind
save_last_seen(f, order, io) ==
    CASE io.kind = "ok" -> Returned(ListFile(order))
      [] io.kind = "open" -> Raised(f)
      [] OTHER -> Raised(PartialFile(SubSeq(order, 1, io.k)))

\* the characters outside ASCII of the first line of the body main() builds
BodyHead == <<240, 376, 353, 8212>>

\* encodings sys.stdout can have, and the highest code point each can write
Encodings == {"utf-8", "latin-1", "ascii"}
MaxCodePoint(enc) ==
    CASE enc = "ascii" -> 127
      [] enc = "latin-1" -> 255
      [] OTHER -> 1114111

\* whether print() can write the given characters to a stdout of encoding enc
CanEncode(enc, chars) == \A i \in 1..Len(chars) : chars[i] <= MaxCodePoint(enc)

\* send_email(subject, body): creds says whether EMAIL_ADDRESS,
\* EMAIL_PASSWORD and TO_EMAIL are all set, smtp how the SMTP exchange
\* goes, enc the encoding of sys.stdout. Without credentials the body is
\* printed outside any try, so a stdout that cannot encode it makes the
\* call raise UnicodeEncodeError; with credentials the exchange and its
\* prints are inside the try and every exception is caught
send_email(creds, smtp, enc) ==
    IF ~creds
    THEN IF CanEncode(enc, BodyHead) THEN Returned("logged") ELSE Raised("unprintable")
    ELSE IF smtp = "ok" THEN Returned("sent")
    ELSE Returned("failed")

\* one element of the parsed list built in query_tesla_inventory_api
ParseVehicle(v) ==
    [id |-> Or(Get(v, "id"), Get(v, "vin")), vin |-> Get(v, "vin"),
     trim |-> Get(v, "trim"), price |-> Get(v, "price"),
     city |-> Get(v, "city"), state |-> Get(v, "state"), text |-> Missing]

\* query_tesla_inventory_api: None on any exception, else the parsed list
query_tesla_inventory_api(resp) ==
    IF ~resp.ok THEN ListingsNone
    ELSE ListingsOf([i \in 1..Len(resp.results) |-> ParseVehicle(resp.results[i])])

ApiResponses ==
    {[ok |-> FALSE, results |-> <<>>]}
      \cup {[ok |-> TRUE, results |-> q] : q \in BoundedSeq(Vehicles, MaxLen)}

\* one element of results built in query_tesla_inventory_playwright
ScrapedItem(t, seed) ==
    [id |-> PyInt(Hash(t, seed)), vin |-> Missing, trim |-> Missing,
     price |-> Missing, city |-> Missing, state |-> Missing,
     text |-> PyStr(Slice(t, TextLimit))]

RECURSIVE ScrapeItems(_, _)
ScrapeItems(items, seed) ==
    IF items = <<>> THEN <<>>
    ELSE IF HasModelY(Head(items))
         THEN <<ScrapedItem(Head(items), seed)>> \o ScrapeItems(Tail(items), seed)
         ELSE ScrapeItems(Tail(items), seed)

\* variant: a failed browser session is swallowed and reported as no results
query_tesla_inventory_playwright_quiet(page, seed) ==
    IF ~page.ok THEN Returned(ListingsOf(<<>>))
    ELSE Returned(ListingsOf(ScrapeItems(page.items, seed)))

\* query_tesla_inventory_playwright: any exception of the browser session
\* (launch, goto, wait_for_selector timeout) propagates to the caller
query_tesla_inventory_playwright(page, seed) ==
    IF ~page.ok THEN Raised(Unset)
    ELSE Returned(ListingsOf(ScrapeItems(page.items, seed)))

Pages ==
    {[ok |-> FALSE, items |-> <<>>]}
      \cup {[ok |-> TRUE, items |-> q] : q \in BoundedSeq(Texts, MaxLen) \ {<<>>}}

\* main(): listings is None or len(listings) == 0
NeedsFallback(l) == l.kind = "none" \/ Len(l.recs) = 0

\* variant: the new id is reported but not added to last_seen
DeltaStepNoAdd(l, acc) ==
    LET lid == Str(Get(l, "id")) IN
    IF lid \notin acc.last_seen
    THEN [new_listings |-> Append(acc.new_listings, lid), last_seen |-> acc.last_seen]
    ELSE acc

\* variant: every id is reported, the membership test is left out
DeltaStepNoTest(l, acc) ==
    LET lid == Str(Get(l, "id")) IN
    [new_listings |-> Append(acc.new_listings, lid),
     last_seen |-> acc.last_seen \cup {lid}]

\* main(): the body of the loop over listings
DeltaStep(l, acc) ==
    LET lid == Str(Get(l, "id")) IN
    IF lid \notin acc.last_seen
    THEN [new_listings |-> Append(acc.new_listings, lid),
          last_seen |-> acc.last_seen \cup {lid}]
    ELSE acc

\* main(): the loop over listings, from new_listings = [] and the loaded set
RECURSIVE DeltaFrom(_, _)
DeltaFrom(recs, acc) ==
    IF recs = <<>> THEN acc ELSE DeltaFrom(Tail(recs), DeltaStep(Head(recs), acc))

\* variant: the loop starts at the second listing
DeltaLoopSkipFirst(recs, seen) ==
    DeltaFrom(Tail(recs), [new_listings |-> <<>>, last_seen |-> seen])

\* variant: the ids are added to a copy and last_seen is left as loaded
DeltaLoopOnCopy(recs, seen) ==
    [new_listings |-> DeltaFrom(recs, [new_listings |-> <<>>, last_seen |-> seen]).new_listings,
     last_seen |-> seen]

DeltaLoop(recs, seen) == DeltaFrom(recs, [new_listings |-> <<>>, last_seen |-> seen])

\* main(): the body of the e-mail, one field per formatted value
BuildBody(recs) ==
    LET first == recs[1] IN
    [trim |-> Str(Or(Get(first, "trim"), GetD(first, "text", PyStr("N/A")))),
     price |-> Str(Or(Get(first, "price"), PyStr("N/A"))),
     vinid |-> Str(Or(Get(first, "vin"), Get(first, "id"))),
     city |-> Str(GetD(first, "city", PyStr("N/A"))),
     state |-> Str(GetD(first, "state", PyStr("N/A")))]

\* a listing as the provider returned it, without the id it was given
Blank(rec) == [rec EXCEPT !.id = None]

\* the (listing, str(id)) pairs of a list a provider returned
Observations(recs) ==
    {[item |-> Blank(recs[i]), lid |-> Str(Get(recs[i], "id"))] : i \in 1..Len(recs)}

\* ------------------------------------------------------------------------
\* Runs of main()
\* ------------------------------------------------------------------------
Init ==
    /\ file \in InitFiles
    /\ runs = 0
    /\ pc = "idle"
    /\ crashAt = ""
    /\ hashseed = 0
    /\ last_seen = {}
    /\ loaded = {}
    /\ listings = Unset
    /\ new_listings = <<>>
    /\ emails = <<>>
    /\ saves = <<>>
    /\ apiOutcome = "notcalled"
    /\ pwOutcome = "notcalled"
    /\ file0 = file
    /\ alerted = {}
    /\ calls = <<>>
    /\ observed = {}
    /\ notified = {}

\* the script is started: a new process, main() is entered
StartRun ==
    /\ pc \in {"idle", "done", "crashed"}
    /\ runs < MaxRuns
    /\ runs' = runs + 1
    /\ pc' = "load"
    /\ crashAt' = ""
    /\ hashseed' \in Seeds
    /\ last_seen' = {}
    /\ loaded' = {}
    /\ listings' = Unset
    /\ new_listings' = <<>>
    /\ emails' = <<>>
    /\ saves' = <<>>
    /\ apiOutcome' = "notcalled"
    /\ pwOutcome' = "notcalled"
    /\ file0' = file
    /\ alerted' = alerted \cup (IF pc = "done" /\ Len(saves) > 0
                                THEN Range(new_listings) ELSE {})
    /\ calls' = <<>>
    /\ UNCHANGED <<file, observed, notified>>

\* last_seen = load_last_seen()
Load ==
    /\ pc = "load"
    /\ LET r == load_last_seen(file) IN
         IF r.raised
         THEN /\ pc' = "crashed"
              /\ crashAt' = "load"
              /\ UNCHANGED <<last_seen, loaded>>
         ELSE /\ pc' = "api"
              /\ last_seen' = r.value
              /\ loaded' = r.value
              /\ UNCHANGED crashAt
    /\ calls' = Append(calls, "load")
    /\ UNCHANGED <<file, runs, hashseed, listings, new_listings, emails, saves,
                   apiOutcome, pwOutcome, file0, alerted, observed, notified>>

\* listings = query_tesla_inventory_api(ZIP, SEARCH_DISTANCE)
QueryApi ==
    /\ pc = "api"
    /\ \E resp \in ApiResponses :
         LET l == query_tesla_inventory_api(resp) IN
           /\ listings' = l
           /\ apiOutcome' = IF ~resp.ok THEN "failed"
                            ELSE IF Len(resp.results) = 0 THEN "empty" ELSE "data"
           /\ pc' = IF NeedsFallback(l) THEN "playwright" ELSE "check"
           /\ observed' = observed \cup Observations(l.recs)
    /\ calls' = Append(calls, "api")
    /\ UNCHANGED <<file, runs, crashAt, hashseed, last_seen, loaded, new_listings,
                   emails, saves, pwOutcome, file0, alerted, notified>>

\* listings = query_tesla_inventory_playwright(ZIP, SEARCH_DISTANCE)
QueryPlaywright ==
    /\ pc = "playwright"
    /\ \E page \in Pages :
         LET r == query_tesla_inventory_playwright(page, hashseed) IN
           /\ pwOutcome' = IF ~page.ok THEN "failed"
                           ELSE IF Range(page.items) \cap ModelYTexts = {} THEN "empty"
                           ELSE "data"
           /\ IF r.raised
              THEN /\ pc' = "crashed"
                   /\ crashAt' = "playwright"
                   /\ UNCHANGED <<listings, observed>>
              ELSE /\ pc' = "check"
                   /\ listings' = r.value
                   /\ observed' = observed \cup Observations(r.value.recs)
                   /\ UNCHANGED crashAt
    /\ calls' = Append(calls, "playwright")
    /\ UNCHANGED <<file, runs, hashseed, last_seen, loaded, new_listings, emails,
                   saves, apiOutcome, file0, alerted, notified>>

\* variant: an empty result sends the run back to the API for another try
CheckListingsRetry ==
    /\ pc = "check"
    /\ pc' = IF Len(listings.recs) = 0 THEN "api" ELSE "delta"
    /\ UNCHANGED <<file, runs, crashAt, hashseed, last_seen, loaded, listings,
                   new_listings, emails, saves, apiOutcome, pwOutcome, file0, alerted,
                   calls, observed, notified>>

\* if not listings: print("No listings found."); return
CheckListings ==
    /\ pc = "check"
    /\ pc' = IF Len(listings.recs) = 0 THEN "done" ELSE "delta"
    /\ UNCHANGED <<file, runs, crashAt, hashseed, last_seen, loaded, listings,
                   new_listings, emails, saves, apiOutcome, pwOutcome, file0, alerted,
                   calls, observed, notified>>

\* the loop that fills new_listings and adds to last_seen
Delta ==
    /\ pc = "delta"
    /\ LET r == DeltaLoop(listings.recs, last_seen) IN
         /\ new_listings' = r.new_listings
         /\ last_seen' = r.last_seen
    /\ pc' = "notify"
    /\ calls' = Append(calls, "delta")
    /\ UNCHANGED <<file, runs, crashAt, hashseed, loaded, listings, emails, saves,
                   apiOutcome, pwOutcome, file0, alerted, observed, notified>>

\* variant: one e-mail per new listing
EmailCallsPerListing(new) == Len(new)

\* variant: the e-mail is never sent
EmailCallsNever(new) == 0

\* how many times main() calls send_email for a given new_listings
EmailCalls(new) == IF Len(new) > 0 THEN 1 ELSE 0

\* if new_listings: build the body, send_email(...); else: print
Notify ==
    /\ pc = "notify"
    /\ \E creds \in BOOLEAN, smtp \in {"ok", "fail"}, enc \in Encodings :
         LET r == send_email(creds, smtp, enc)
             n == EmailCalls(new_listings)
             mail == [body |-> BuildBody(listings.recs), outcome |-> r.value]
         IN /\ emails' = emails \o [i \in 1..n |-> mail]
            /\ calls' = calls \o [i \in 1..n |-> "send_email"]
            /\ notified' = notified \cup (IF n > 0 THEN Range(new_listings) ELSE {})
            /\ IF n > 0 /\ r.raised
               THEN pc' = "crashed" /\ crashAt' = "send_email"
               ELSE pc' = "save" /\ UNCHANGED crashAt
    /\ UNCHANGED <<file, runs, hashseed, last_seen, loaded, listings, new_listings,
                   saves, apiOutcome, pwOutcome, file0, alerted, observed>>

\* save_last_seen(last_seen)
Save ==
    /\ pc = "save"
    /\ \E order \in Orderings(last_seen) :
         \E io \in SaveFaults(order) :
           LET r == save_last_seen(file, order, io) IN
             /\ file' = r.value
             /\ saves' = Append(saves, last_seen)
             /\ IF r.raised
                THEN /\ pc' = "crashed"
                     /\ crashAt' = "save"
                ELSE /\ pc' = "done"
                     /\ UNCHANGED crashAt
    /\ calls' = Append(calls, "save")
    /\ UNCHANGED <<runs, hashseed, last_seen, loaded, listings, new_listings,
                   emails, apiOutcome, pwOutcome, file0, alerted, observed, notified>>

Next ==
    \/ StartRun
    \/ Load
    \/ QueryApi
    \/ QueryPlaywright
    \/ CheckListings
    \/ Delta
    \/ Notify
    \/ Save

Spec == Init /\ [][Next]_vars


\* runs that start without a state file or with an empty one
InitFresh ==
    /\ Init
    /\ file \in {Absent, ListFile(<<>>)}

SpecFresh == InitFresh /\ [][Next]_vars

\* ------------------------------------------------------------------------
\* The loop over listings on its own: any snapshot against any loaded set
\* ------------------------------------------------------------------------
LidUniverse == {"V1", "5YJ2", "None"}

InitDelta ==
    /\ \E q \in BoundedSeq(Vehicles, MaxDeltaLen) \ {<<>>} :
         listings = query_tesla_inventory_api([ok |-> TRUE, results |-> q])
    /\ last_seen \in SUBSET LidUniverse
    /\ loaded = last_seen
    /\ file \in {ListFile(o) : o \in Orderings(last_seen)}
    /\ file0 = file
    /\ runs = 1
    /\ pc = "delta"
    /\ crashAt = ""
    /\ hashseed = 0
    /\ new_listings = <<>>
    /\ emails = <<>>
    /\ saves = <<>>
    /\ apiOutcome = "data"
    /\ pwOutcome = "notcalled"
    /\ alerted = {}
    /\ calls = <<"load", "api">>
    /\ observed = Observations(listings.recs)
    /\ notified = {}

\* the loop once more over the same snapshot, from the set the first pass left
DeltaRerun ==
    /\ pc = "notify"
    /\ LET r == DeltaLoop(listings.recs, last_seen) IN
         /\ new_listings' = r.new_listings
         /\ last_seen' = r.last_seen
    /\ pc' = "rerun"
    /\ calls' = Append(calls, "delta")
    /\ UNCHANGED <<file, runs, crashAt, hashseed, loaded, listings, emails, saves,
                   apiOutcome, pwOutcome, file0, alerted, observed, notified>>

NextDelta ==
    \/ Delta
    \/ DeltaRerun

SpecDelta == InitDelta /\ [][NextDelta]_vars

\* ------------------------------------------------------------------------
\* Properties
\* ------------------------------------------------------------------------
Terminal == pc \in {"done", "crashed"}
Lid(rec) == Str(Get(rec, "id"))

\* C1: an id that was in the new-listings delta of an earlier run that saved
\* its seen-set is never in the delta of a later run
C1_AlertedAtMostOnce == Range(new_listings) \cap alerted = {}

\* a later run has been started on the file an alerting run saved
C1_Witness ==
    /\ alerted # {}
    /\ runs >= 2
    /\ Persisted(file) = alerted
    /\ Terminal

\* C2: in every run send_email is called once if new_listings is non-empty
\* and not at all otherwise, never more than once
C2_NotifyOncePerRun ==
    /\ Len(emails) <= 1
    /\ pc \in {"save", "done"} => Len(emails) = (IF Len(new_listings) > 0 THEN 1 ELSE 0)
    /\ Len(new_listings) = 0 => Len(emails) = 0

C2_Witness ==
    /\ pc = "done"
    /\ Len(new_listings) >= 2
    /\ Len(emails) = 1

\* the identifying values of a listing: its id and its VIN, as printed
IdentInfo(rec) == {Lid(rec), Str(Get(rec, "vin"))}
Mentions(body, rec) == body.vinid \in IdentInfo(rec)

\* C3: the body of the e-mail mentions every listing of the delta, and the
\* listing it mentions belongs to the delta
C3_BodyMentionsAllNew ==
    Len(emails) > 0 =>
      /\ \A i \in 1..Len(listings.recs) :
           Lid(listings.recs[i]) \in Range(new_listings)
             => Mentions(emails[1].body, listings.recs[i])
      /\ \E i \in 1..Len(listings.recs) :
           /\ Lid(listings.recs[i]) \in Range(new_listings)
           /\ Mentions(emails[1].body, listings.recs[i])

\* C4: whatever the notifier's outcome (delivered, credentials absent,
\* transport failure), send_email returns without raising and save_last_seen
\* is then called with the loaded set plus the ids of the delta
C4_SaveAfterAnyNotifyOutcome ==
    /\ crashAt # "send_email"
    /\ (Terminal /\ Len(emails) > 0) =>
         /\ Len(saves) = 1
         /\ saves[1] = loaded \cup Range(new_listings)

\* C5: when the API and the scraping fallback both fail, nothing is sent,
\* nothing is saved, the state file is as it was and the run ends abnormally
C5_TotalFailureTouchesNothing ==
    (apiOutcome = "failed" /\ pwOutcome = "failed") =>
      /\ emails = <<>>
      /\ saves = <<>>
      /\ file = file0
      /\ pc = "crashed"

C5_Witness ==
    /\ apiOutcome = "failed"
    /\ pwOutcome = "failed"
    /\ pc = "crashed"
    /\ crashAt = "playwright"

\* the fetch succeeded with no listing: the API answered with zero results,
\* or it failed and the scrape found no Model Y
FetchedEmpty ==
    \/ apiOutcome = "empty"
    \/ (apiOutcome = "failed" /\ pwOutcome = "empty")

\* C6: a fetch that succeeds with zero listings ends the run normally,
\* without notification and without touching the state file
C6_EmptyFetchEndsCleanly ==
    (FetchedEmpty /\ Terminal) =>
      /\ pc = "done"
      /\ emails = <<>>
      /\ file = file0

\* C7: load_last_seen() after save_last_seen(ids) returns ids
C7_RoundTrip ==
    (pc = "done" /\ Len(saves) > 0) =>
      LET r == load_last_seen(file) IN
        /\ ~r.raised
        /\ r.value = saves[1]

\* C8: load_last_seen never fails; without a file, or with an unreadable
\* one, the run goes on with an empty set
C8_LoadNeverFails ==
    /\ crashAt # "load"
    /\ (pc = "api" /\ file.kind # "list") => last_seen = {}

\* C9: the set passed to save_last_seen contains the loaded set, and the
\* state file never loses an id from one step to the next
C9_SeenSetGrows ==
    [][/\ Persisted(file) \subseteq Persisted(file')
       /\ Len(saves') > Len(saves) => loaded \subseteq saves'[Len(saves')]]_vars

\* a run after the one that saved two ids has ended and the file holds them
C9_Witness ==
    /\ Cardinality(alerted) >= 2
    /\ alerted \subseteq Persisted(file)
    /\ crashAt = "load"
    /\ file0 = file

\* positions of the snapshot whose id is not loaded and not seen earlier in it
NovelIdx(recs, seen) ==
    {i \in 1..Len(recs) :
       /\ Lid(recs[i]) \notin seen
       /\ \A j \in 1..(i - 1) : Lid(recs[j]) # Lid(recs[i])}

\* the k-th smallest element of a set of positions
Kth(S, k) == CHOOSE i \in S : Cardinality({j \in S : j <= i}) = k

\* C10: the delta is the subsequence of the snapshot, in provider order, of
\* the ids not in the loaded set, each repeated id once at its first place
C10_DeltaIsNovelSubsequence ==
    pc = "notify" =>
      LET idx == NovelIdx(listings.recs, loaded) IN
        /\ Len(new_listings) = Cardinality(idx)
        /\ \A k \in 1..Len(new_listings) :
             new_listings[k] = Lid(listings.recs[Kth(idx, k)])

\* current = [V1, 5YJ2, None], seen = {5YJ2} gives [V1, None]
C10_Witness ==
    /\ pc = "notify"
    /\ loaded = {"5YJ2"}
    /\ Len(listings.recs) = 3
    /\ Lid(listings.recs[2]) = "5YJ2"
    /\ new_listings = <<"V1", "None">>


\* C11: the delta of a snapshot against the set its own delta step left is
\* empty, and that set is left as it is
C11_DeltaIdempotent ==
    [][(pc = "notify" /\ pc' = "rerun") =>
         (new_listings' = <<>> /\ last_seen' = last_seen)]_vars

\* the second pass has run after a first pass that found two new ids
C11_Witness ==
    /\ pc = "rerun"
    /\ Cardinality(last_seen \ loaded) >= 2
    /\ loaded # {}
    /\ new_listings = <<>>

\* the ids of the records of a snapshot, in provider order
LidsOf(recs) == [i \in 1..Len(recs) |-> Lid(recs[i])]

\* C12 as stated: without a state file the loaded set is empty and the
\* delta of a non-empty snapshot is the entire snapshot, record for record
C12_FirstRunDeltaIsSnapshot ==
    (file0.kind = "absent" /\ pc = "notify") =>
      /\ loaded = {}
      /\ new_listings = LidsOf(listings.recs)

\* C12: without a state file the loaded set is empty and the delta holds
\* the id of every record of the snapshot, in provider order, each id once
\* at its first occurrence
C12_FirstRunDeltaIsAllIds ==
    (file0.kind = "absent" /\ pc = "notify") =>
      LET idx == NovelIdx(listings.recs, {}) IN
        /\ loaded = {}
        /\ Range(new_listings) = Range(LidsOf(listings.recs))
        /\ Len(new_listings) = Cardinality(idx)
        /\ \A k \in 1..Len(new_listings) :
             new_listings[k] = Lid(listings.recs[Kth(idx, k)])
        /\ (Cardinality(Range(LidsOf(listings.recs))) = Len(listings.recs)
              => new_listings = LidsOf(listings.recs))

\* a first run whose records all have their own id
C12_Witness ==
    /\ file0.kind = "absent"
    /\ pc = "notify"
    /\ Len(listings.recs) >= 2
    /\ new_listings = LidsOf(listings.recs)


\* C13: the composed fetch fails only when every strategy fails; once the
\* API has answered, with or without results, a failure of the scraping
\* fallback does not make the run a provider failure
C13_ApiSuccessIsFetchSuccess ==
    apiOutcome \in {"empty", "data"} => ~(pc = "crashed" /\ crashAt = "playwright")

\* C14: a listing that has not changed is given the same id string in
\* every run, whichever strategy produced it
C14_IdStableAcrossRuns ==
    \A a \in observed : \A b \in observed : a.item = b.item => a.lid = b.lid

\* the place of a call in main()
Rank(c) ==
    CASE c = "load" -> 1
      [] c = "api" -> 2
      [] c = "playwright" -> 3
      [] c = "delta" -> 4
      [] c = "send_email" -> 5
      [] OTHER -> 6

Called(c) == c \in Range(calls)

\* C15: within a run the calls come in the order load, API, scrape, delta,
\* send_email, save, each at most once; the delta follows a completed
\* fetch, and a save follows the notification attempt of a non-empty delta
C15_StepsInOrder ==
    /\ \A i \in 1..Len(calls) : \A j \in 1..Len(calls) :
         i < j => Rank(calls[i]) < Rank(calls[j])
    /\ calls # <<>> => calls[1] = "load"
    /\ Called("playwright") => Called("api")
    /\ Called("delta") => (Called("api") /\ listings.kind = "list" /\ Len(listings.recs) > 0)
    /\ Called("send_email") => Called("delta")
    /\ Called("save") => (Called("delta") /\ (Len(new_listings) > 0 => Called("send_email")))

\* a run that went through every call
C15_Witness ==
    /\ pc = "done"
    /\ calls = <<"load", "api", "playwright", "delta", "send_email", "save">>


\* C16 as stated: the set load_last_seen returned is left as it was by the
\* delta computation
C16_LoadedSetUntouched == Called("delta") => last_seen = loaded

\* C16: the loop adds the new ids in place to the set load_last_seen
\* returned, and that same set is the value passed to save_last_seen
C16_DeltaUpdatesInPlace ==
    Called("delta") =>
      /\ last_seen = loaded \cup Range(new_listings)
      /\ Len(saves) > 0 => saves[1] = last_seen

C16_Witness ==
    /\ pc = "done"
    /\ Len(saves) = 1
    /\ Len(new_listings) >= 2
    /\ last_seen # loaded

\* C17: from an absent or empty state file, every persisted id was the id
\* of a fetched record and in a delta send_email was called for
C17_PersistedWereNotified ==
    Persisted(file) \subseteq (notified \cap {o.lid : o \in observed})

C17_Witness ==
    /\ pc = "done"
    /\ Cardinality(Persisted(file)) >= 2
    /\ Len(emails) = 1
    /\ emails[1].outcome = "failed"

\* C18: a run ends abnormally exactly when both provider strategies failed
\* or the save failed
C18_AbnormalOnlyOnFetchOrSaveFailure ==
    Terminal =>
      ((pc = "crashed") <=>
         ((apiOutcome = "failed" /\ pwOutcome = "failed") \/ crashAt = "save"))

\* C19: after a save attempt the state file holds the complete new set or
\* is as it was before, never a truncated or partial text
C19_SaveIsAtomic ==
    Called("save") =>
      \/ file = file0
      \/ (file.kind = "list" /\ Persisted(file) = saves[1])

\* C20: every record that reaches the delta step has a real id, and two
\* different listings never share a deduplication key
C20_RealDistinctIds ==
    Called("delta") =>
      /\ \A i \in 1..Len(listings.recs) : Truthy(Get(listings.recs[i], "id"))
      /\ \A i \in 1..Len(listings.recs) : \A j \in 1..Len(listings.recs) :
           listings.recs[i] # listings.recs[j]
             => Lid(listings.recs[i]) # Lid(listings.recs[j])

====
